---- MODULE Spec2Model ----
(***************************************************************************)
(* Alert manager of the freezer monitor (alerts.js), with its dispatcher   *)
(* emitEvent/sendEmail and the webhook notifier it is wired to.            *)
(*                                                                         *)
(* Times are milliseconds, as in the code.  Temperatures are tenths of a   *)
(* degree Celsius, so that SPIKE_C = 1.5 and the bounds are integers.      *)
(***************************************************************************)
EXTENDS Integers, Sequences, FiniteSets, TLC

(* ------------------------------ bounds --------------------------------- *)
\* Date.now() when the process starts (any epoch far above the cooldown).
StartMs == 1000000000
\* Granularity with which server time advances between handlers.
TickMs == 300000
\* Number of clock advances explored for one device.
MaxTicks == 2
\* Number of clock advances explored while deliveries are followed.
MaxTicksD == 1
\* Number of event dispatches that may be suspended in delivery at once.
MaxInFlight == 1
\* The same two numbers for the runs in which dispatches overlap.
MaxTicksC == 1
MaxInFlightC == 2

(* ------------------------- program constants --------------------------- *)
HEARTBEAT_SEC == 300
COOLDOWN_SEC == 900
\* SPIKE_C = 1.5 degrees, in tenths of a degree.
SPIKE_C == 15
\* LOWER / UPPER = -90 / -70 degrees, in tenths of a degree.
LOWER == -900
UPPER == -700

(* ------------------------------ inputs --------------------------------- *)
Ids == {"A", "B"}
\* the device whose whole life is explored
CoreIds == {"A"}
\* the upper bound itself (in range) and two out-of-range values 1.5 apart
Temps == {-700, -690, -675}
\* status register values: 0 is "no fault"
Srs == {0, 1}
\* (lower, upper) pairs the ingest path resolves: the default pair
BoundsSet == {<<<<LOWER>>, <<UPPER>>>>}
\* device timestamp minus server time; the ingest path accepts |offset| < 48 h
TsOffsets == {0 - TickMs, 0}

\* inputs of the runs on the interface of the alert manager: both bounds
\* (in range), a value inside and one above the range; bounds passed or omitted
TempsG == {-900, -800, -700, -600}
BoundsSetG == {<<<<LOWER>>, <<UPPER>>>>, <<<<>>, <<>>>>}

\* inputs of the runs in which deliveries are followed
TempsD == {-690}
SrsD == {0}
TsOffsetsD == {0 - TickMs}

Buckets == {"alert", "fault", "offline", "online", "recover"}

\* A configuration flag as JavaScript sees it.
Flags == {"undefined", "false", "true"}
Truthy(x) == x = "true"

\* cfg.discord_min_gap_sec as an administrator sets it (PUT /config accepts 0..3600)
GapSec == 300

\* db.data.config as the dispatcher reads it: the flags, whether a recipient
\* list / a webhook URL resolves (configuration or environment), and the
\* minimum gap between webhook posts in seconds.
CfgOff ==
    [alerts_enabled |-> "undefined", email_enabled |-> "undefined",
     discord_enabled |-> "undefined", recipients |-> FALSE, webhook |-> FALSE,
     min_gap_sec |-> 0]
CfgAllOn ==
    [alerts_enabled |-> "true", email_enabled |-> "undefined",
     discord_enabled |-> "true", recipients |-> TRUE, webhook |-> TRUE,
     min_gap_sec |-> 0]
CfgSet == {CfgOff, CfgAllOn}

\* webhook only, rate-limited: the email channel is disabled by its flag
CfgWebhook ==
    [alerts_enabled |-> "true", email_enabled |-> "false",
     discord_enabled |-> "true", recipients |-> TRUE, webhook |-> TRUE,
     min_gap_sec |-> GapSec]
\* both channels enabled, no destination configured
CfgNoDest ==
    [alerts_enabled |-> "true", email_enabled |-> "true",
     discord_enabled |-> "true", recipients |-> FALSE, webhook |-> FALSE,
     min_gap_sec |-> 0]
\* both channels configured, the global switch off
CfgSwitchOff ==
    [alerts_enabled |-> "false", email_enabled |-> "true",
     discord_enabled |-> "true", recipients |-> TRUE, webhook |-> TRUE,
     min_gap_sec |-> 0]
CfgSetC == {CfgWebhook, CfgNoDest, CfgSwitchOff}

\* process.env as sendEmail reads it
EnvSmtp == [provider |-> "smtp", smtpReady |-> TRUE, apiKey |-> FALSE]
EnvResend == [provider |-> "resend", smtpReady |-> FALSE, apiKey |-> TRUE]
EnvSet == {EnvSmtp, EnvResend}

\* what a mail transport does with one attempt (a hang is the absence of a step)
EmailOutcomes == {"ok", "refused", "throw"}
\* what the webhook does with one POST: 204, 429, another 2xx, a 4xx other than
\* 429, a 5xx, a network error (fetch rejects)
DiscordOutcomes == {"204", "429", "2xx", "4xx", "5xx", "throw"}

VARIABLES
    clock,      \* Date.now()
    devices,    \* the Map `devices`: id -> record (a fresh record for an absent id)
    order,      \* insertion order of the Map's keys
    cfg,        \* what getConfig() returns
    env,        \* process.env
    notifier,   \* whether `notifier` is a function (setNotifier was called)
    inflight,   \* the emitEvent invocations suspended at an await, oldest first
    lastPostMs, \* discord.js: time of the last POST answered with 204
    last,       \* history: what the step into this state was (a call and the
                \* events it emitted, a settled emitEvent, or something else)
    emitted     \* history: per device, the kinds emitted by its most recent updateReading

vars == <<clock, devices, order, cfg, env, notifier, inflight, lastPostMs, last, emitted>>

(* ----------------------------- helpers --------------------------------- *)
Abs(x) == IF x < 0 THEN 0 - x ELSE x

Max(a, b) == IF a >= b THEN a ELSE b

\* Elements of a sequence, as a set.
Range(s) == {s[i] : i \in 1..Len(s)}

\* The subsequence of events of one kind (and one device).
EventsOf(evs, kind, id) ==
    SelectSeq(evs, LAMBDA e : e.kind = kind /\ e.id = id)

KindsOf(evs) == [i \in 1..Len(evs) |-> evs[i].kind]

\* `sr >>> 0` on the values the ingest path passes on (already a uint32).
ToUint32(n) == IF n >= 0 THEN n ELSE n + 2147483647 + 2147483647 + 2

\* devices.get(id) || { lastTs: 0, lastTemp: undefined, ... }
FreshRec ==
    [lastTs |-> 0, lastTemp |-> <<>>, lastSr |-> 0, status |-> "normal",
     lastAlertAt |-> [b \in Buckets |-> 0], lastOnlineAt |-> 0]

\* An optional value is <<>> (undefined) or <<v>>.
Some(v) == <<v>>
Undefined == <<>>

\* Number.isFinite(x) for an optional number
IsFinite(x) == Len(x) = 1

(* ---------------------------- shouldCooldown --------------------------- *)
\* as ShouldCooldown, with a window of a third of the cooldown
ShouldCooldown_ShortWindow(state, key, now) ==
    LET lastAt == state.lastAlertAt[key] IN
    IF now - lastAt >= (COOLDOWN_SEC * 1000) \div 3
    THEN [ret |-> FALSE, state |-> [state EXCEPT !.lastAlertAt[key] = now]]
    ELSE [ret |-> TRUE, state |-> state]

\* as ShouldCooldown, stamping the bucket on every call
ShouldCooldown_StampAlways(state, key, now) ==
    LET lastAt == state.lastAlertAt[key] IN
    [ret |-> ~(now - lastAt >= COOLDOWN_SEC * 1000),
     state |-> [state EXCEPT !.lastAlertAt[key] = now]]

\* Returns the suppress flag and the state after the side effect.
ShouldCooldown(state, key, now) ==
    LET lastAt == state.lastAlertAt[key] IN
    IF now - lastAt >= COOLDOWN_SEC * 1000
    THEN [ret |-> FALSE, state |-> [state EXCEPT !.lastAlertAt[key] = now]]
    ELSE [ret |-> TRUE, state |-> state]

(* ------------------------------ classify ------------------------------- *)
\* a < b on optional numbers: a comparison with undefined is false.
JsLess(a, b) == IsFinite(a) /\ IsFinite(b) /\ a[1] < b[1]

\* as Classify, with the bounds themselves out of range
Classify_BoundsExcluded(t, sr, lower, upper) ==
    IF ToUint32(sr) # 0 THEN "fault"
    ELSE IF ~JsLess(lower, Some(t)) \/ ~JsLess(Some(t), upper) THEN "alert"
    ELSE "normal"

\* as Classify, testing the bounds before the fault code
Classify_BoundsFirst(t, sr, lower, upper) ==
    IF JsLess(Some(t), lower) \/ JsLess(upper, Some(t)) THEN "alert"
    ELSE IF ToUint32(sr) # 0 THEN "fault"
    ELSE "normal"

\* lower and upper are optional: updateReading takes them as they are passed.
Classify(t, sr, lower, upper) ==
    IF ToUint32(sr) # 0 THEN "fault"
    ELSE IF JsLess(Some(t), lower) \/ JsLess(upper, Some(t)) THEN "alert"
    ELSE "normal"

Spike(rec, t) ==
    IsFinite(rec.lastTemp) /\ Abs(t - rec.lastTemp[1]) >= SPIKE_C

\* as ReadingEvent, every event attributed to one device
ReadingEvent_OneDevice(kind, id, t, sr, lower, upper, now) ==
    [kind |-> kind, id |-> "A", t |-> Some(t),
     sr |-> IF kind \in {"online", "fault"} THEN Some(sr) ELSE Undefined,
     lower |-> lower, upper |-> upper, when |-> now]

\* The event object handed to emitEvent by updateReading.
ReadingEvent(kind, id, t, sr, lower, upper, now) ==
    [kind |-> kind, id |-> id, t |-> Some(t),
     sr |-> IF kind \in {"online", "fault"} THEN Some(sr) ELSE Undefined,
     lower |-> lower, upper |-> upper, when |-> now]

\* The event object handed to emitEvent by checkHeartbeats.
OfflineEvent(id, now) ==
    [kind |-> "offline", id |-> id, t |-> Undefined, sr |-> Undefined,
     lower |-> Undefined, upper |-> Undefined, when |-> now]

(* --------------------- the four steps of updateReading ----------------- *)
\* Each step returns the record after the gate's side effect and whether
\* emitEvent is called.

\* as OnlineStep, gated by the bucket of the 'offline' notice
OnlineStep_OfflineBucket(rec, wasOffline, now) ==
    IF wasOffline
    THEN LET sc == ShouldCooldown(rec, "offline", now)
         IN [state |-> sc.state, emit |-> ~sc.ret]
    ELSE [state |-> rec, emit |-> FALSE]

OnlineStep(rec, wasOffline, now) ==
    IF wasOffline
    THEN LET sc == ShouldCooldown(rec, "online", now)
         IN [state |-> sc.state, emit |-> ~sc.ret]
    ELSE [state |-> rec, emit |-> FALSE]

\* as FaultStep, without the fresh-transition override
FaultStep_GateOnly(rec, statusNow, wasStatus, now) ==
    IF statusNow = "fault"
    THEN LET sc == ShouldCooldown(rec, "fault", now)
         IN [state |-> sc.state, emit |-> ~sc.ret]
    ELSE [state |-> rec, emit |-> FALSE]

FaultStep(rec, statusNow, wasStatus, now) ==
    IF statusNow = "fault"
    THEN LET sc == ShouldCooldown(rec, "fault", now)
         IN [state |-> sc.state, emit |-> (~sc.ret \/ wasStatus # "fault")]
    ELSE [state |-> rec, emit |-> FALSE]

\* as AlertStep, without the spike override
AlertStep_NoSpike(rec, statusNow, wasAlert, t, now) ==
    IF statusNow = "alert"
    THEN LET sc == ShouldCooldown(rec, "alert", now)
         IN [state |-> sc.state, emit |-> (~sc.ret \/ ~wasAlert)]
    ELSE [state |-> rec, emit |-> FALSE]

\* as AlertStep, without the fresh-transition override
AlertStep_NoFreshOverride(rec, statusNow, wasAlert, t, now) ==
    IF statusNow = "alert"
    THEN IF Spike(rec, t)
         THEN [state |-> rec, emit |-> TRUE]
         ELSE LET sc == ShouldCooldown(rec, "alert", now)
              IN [state |-> sc.state, emit |-> ~sc.ret]
    ELSE [state |-> rec, emit |-> FALSE]

\* `spike || !shouldCooldown(...) || !wasAlert`: the gate is not called on a spike.
AlertStep(rec, statusNow, wasAlert, t, now) ==
    IF statusNow = "alert"
    THEN IF Spike(rec, t)
         THEN [state |-> rec, emit |-> TRUE]
         ELSE LET sc == ShouldCooldown(rec, "alert", now)
              IN [state |-> sc.state, emit |-> (~sc.ret \/ ~wasAlert)]
    ELSE [state |-> rec, emit |-> FALSE]

\* as RecoverStep, whatever the status was before the reading
RecoverStep_AnyPrevious(rec, statusNow, wasAlert, now) ==
    IF statusNow = "normal"
    THEN LET sc == ShouldCooldown(rec, "recover", now)
         IN [state |-> sc.state, emit |-> ~sc.ret]
    ELSE [state |-> rec, emit |-> FALSE]

\* as RecoverStep, gated by the 'alert' bucket
RecoverStep_AlertBucket(rec, statusNow, wasAlert, now) ==
    IF statusNow # "alert" /\ wasAlert /\ statusNow = "normal"
    THEN LET sc == ShouldCooldown(rec, "alert", now)
         IN [state |-> sc.state, emit |-> ~sc.ret]
    ELSE [state |-> rec, emit |-> FALSE]

RecoverStep(rec, statusNow, wasAlert, now) ==
    IF statusNow # "alert" /\ wasAlert /\ statusNow = "normal"
    THEN LET sc == ShouldCooldown(rec, "recover", now)
         IN [state |-> sc.state, emit |-> ~sc.ret]
    ELSE [state |-> rec, emit |-> FALSE]

\* as Persist, a reading not clearing 'offline'
Persist_StickyOffline(rec, t, sr, statusNow, now) ==
    [rec EXCEPT !.lastTs = now, !.lastTemp = Some(t), !.lastSr = ToUint32(sr),
                !.status = IF rec.status = "offline" THEN "offline" ELSE statusNow,
                !.lastOnlineAt = now]

\* as Persist, the status left for a later turn (a commit in two parts)
Persist_StatusLater(rec, t, sr, statusNow, now) ==
    [rec EXCEPT !.lastTs = now, !.lastTemp = Some(t), !.lastSr = ToUint32(sr),
                !.lastOnlineAt = now]

\* rec.lastTs = now; rec.lastTemp = t; ...
Persist(rec, t, sr, statusNow, now) ==
    [rec EXCEPT !.lastTs = now, !.lastTemp = Some(t), !.lastSr = ToUint32(sr),
                !.status = statusNow, !.lastOnlineAt = now]

\* as UpdateResult, the 'online' notice sent after the reading's own event
UpdateResult_OnlineLast(rec, id, t, sr, now, lower, upper) ==
    LET wasStatus == rec.status
        wasOffline == wasStatus = "offline"
        statusNow == Classify(t, sr, lower, upper)
        wasAlert == wasStatus = "alert"
        s1 == OnlineStep(rec, wasOffline, now)
        s2 == FaultStep(s1.state, statusNow, wasStatus, now)
        s3 == AlertStep(s2.state, statusNow, wasAlert, t, now)
        s4 == RecoverStep(s3.state, statusNow, wasAlert, now)
        ev(kind, on) ==
            IF on THEN <<ReadingEvent(kind, id, t, sr, lower, upper, now)>> ELSE <<>>
    IN [rec |-> Persist(s4.state, t, sr, statusNow, now),
        statusNow |-> statusNow,
        events |-> ev("fault", s2.emit) \o ev("alert", s3.emit)
                   \o ev("recover", s4.emit) \o ev("online", s1.emit)]

\* as UpdateResult, committing the reading before the events are decided
UpdateResult_CommitFirst(rec, id, t, sr, now, lower, upper) ==
    LET statusNow == Classify(t, sr, lower, upper)
        rec0 == Persist(rec, t, sr, statusNow, now)
        wasStatus == rec0.status
        wasOffline == wasStatus = "offline"
        wasAlert == wasStatus = "alert"
        s1 == OnlineStep(rec0, wasOffline, now)
        s2 == FaultStep(s1.state, statusNow, wasStatus, now)
        s3 == AlertStep(s2.state, statusNow, wasAlert, t, now)
        s4 == RecoverStep(s3.state, statusNow, wasAlert, now)
        ev(kind, on) ==
            IF on THEN <<ReadingEvent(kind, id, t, sr, lower, upper, now)>> ELSE <<>>
    IN [rec |-> s4.state,
        statusNow |-> statusNow,
        events |-> ev("online", s1.emit) \o ev("fault", s2.emit)
                   \o ev("alert", s3.emit) \o ev("recover", s4.emit)]

\* The whole of updateReading on one record: the committed record and the
\* events in the order of the emitEvent calls.
UpdateResult(rec, id, t, sr, now, lower, upper) ==
    LET wasStatus == rec.status
        wasOffline == wasStatus = "offline"
        statusNow == Classify(t, sr, lower, upper)
        wasAlert == wasStatus = "alert"
        s1 == OnlineStep(rec, wasOffline, now)
        s2 == FaultStep(s1.state, statusNow, wasStatus, now)
        s3 == AlertStep(s2.state, statusNow, wasAlert, t, now)
        s4 == RecoverStep(s3.state, statusNow, wasAlert, now)
        ev(kind, on) ==
            IF on THEN <<ReadingEvent(kind, id, t, sr, lower, upper, now)>> ELSE <<>>
    IN [rec |-> Persist(s4.state, t, sr, statusNow, now),
        statusNow |-> statusNow,
        events |-> ev("online", s1.emit) \o ev("fault", s2.emit)
                   \o ev("alert", s3.emit) \o ev("recover", s4.emit)]

(* ---------------------------- checkHeartbeats -------------------------- *)
OfflineAfterMs == Max(30, HEARTBEAT_SEC) * 1000 * 2

IsStale(rec, now) == now - rec.lastTs >= OfflineAfterMs

\* as SweepOne, clearing the stored reading of a device it marks offline
SweepOne_ResetReading(rec, id, now) ==
    IF IsStale(rec, now) /\ rec.status # "offline"
    THEN LET sc == ShouldCooldown(rec, "offline", now)
         IN [rec |-> [sc.state EXCEPT !.status = "offline", !.lastTemp = Undefined,
                                      !.lastSr = 0],
             events |-> IF ~sc.ret THEN <<OfflineEvent(id, now)>> ELSE <<>>]
    ELSE [rec |-> rec, events |-> <<>>]

\* as SweepOne, forgetting `rec.status = "offline"`
SweepOne_KeepStatus(rec, id, now) ==
    IF IsStale(rec, now) /\ rec.status # "offline"
    THEN LET sc == ShouldCooldown(rec, "offline", now)
         IN [rec |-> sc.state,
             events |-> IF ~sc.ret THEN <<OfflineEvent(id, now)>> ELSE <<>>]
    ELSE [rec |-> rec, events |-> <<>>]

\* The body of the loop for one entry of the Map.
SweepOne(rec, id, now) ==
    IF IsStale(rec, now) /\ rec.status # "offline"
    THEN LET sc == ShouldCooldown(rec, "offline", now)
         IN [rec |-> [sc.state EXCEPT !.status = "offline"],
             events |-> IF ~sc.ret THEN <<OfflineEvent(id, now)>> ELSE <<>>]
    ELSE [rec |-> rec, events |-> <<>>]

\* as SweepFrom, leaving the loop at the first emitEvent call (as it would if
\* the call were awaited and never settled, or threw into the loop)
RECURSIVE SweepFrom_StopAtEmit(_, _, _, _)
SweepFrom_StopAtEmit(i, devs, keys, now) ==
    IF i > Len(keys) THEN [devs |-> devs, events |-> <<>>]
    ELSE LET id == keys[i]
             one == SweepOne(devs[id], id, now)
         IN IF one.events # <<>>
            THEN [devs |-> devs, events |-> one.events]
            ELSE LET rest == SweepFrom_StopAtEmit(i + 1, [devs EXCEPT ![id] = one.rec],
                                                  keys, now)
                 IN [devs |-> rest.devs, events |-> rest.events]

\* for (const [id, rec] of devices.entries()) ...: the Map after the loop and
\* the events in the order of the emitEvent calls.
RECURSIVE SweepFrom(_, _, _, _)
SweepFrom(i, devs, keys, now) ==
    IF i > Len(keys) THEN [devs |-> devs, events |-> <<>>]
    ELSE LET id == keys[i]
             one == SweepOne(devs[id], id, now)
             rest == SweepFrom(i + 1, [devs EXCEPT ![id] = one.rec], keys, now)
         IN [devs |-> rest.devs, events |-> one.events \o rest.events]

(* ------------------------------- getStates ----------------------------- *)
\* Objects are shared by reference.  The record of a device and the object in
\* its lastAlertAt field are two objects; Ledger(id) names the second.
Ledger(id) == [ledgerOf |-> id]

\* [...devices.entries()].map(([id, s]) => ({ id, ...s })): one new object per
\* device, into which the spread copies the record's fields: the numbers and
\* strings by value, the lastAlertAt field as the reference it holds.
GetStates(devs, keys) ==
    [i \in 1..Len(keys) |->
        [id |-> keys[i],
         lastTs |-> devs[keys[i]].lastTs,
         lastTemp |-> devs[keys[i]].lastTemp,
         lastSr |-> devs[keys[i]].lastSr,
         status |-> devs[keys[i]].status,
         lastAlertAt |-> Ledger(keys[i]),
         lastOnlineAt |-> devs[keys[i]].lastOnlineAt]]

\* What the caller's assignment `snapshot[i].path = v` does to the Map: a path
\* of length one writes a field of the snapshot's own object; a path through
\* lastAlertAt writes the object that field refers to.
WriteThrough(devs, snap, i, path, v) ==
    IF Len(path) = 2 /\ path[1] = "lastAlertAt"
    THEN [devs EXCEPT ![snap[i].lastAlertAt.ledgerOf].lastAlertAt[path[2]] = v]
    ELSE devs

\* the assignments a caller makes on the snapshot
SnapshotPaths ==
    {<<"lastTs">>, <<"lastOnlineAt">>} \cup {<<"lastAlertAt", b>> : b \in Buckets}
SnapshotValues == {0}

(* ------------------------------ dispatcher ----------------------------- *)
\* withRetries(fn, { tries: 2, ... }) and the loop bound of postToDiscord
EmailTries == 2
DiscordAttempts == 2

\* One emitEvent invocation.
\* wakeAt is the time the rate-limit sleep ends, postAt the time of its last POST.
NewTask(evt) ==
    [evt |-> evt, pc |-> "start", tries |-> 0, emailRes |-> "none",
     attempt |-> 0, posts |-> 0, discordRes |-> "none", outcome |-> "pending",
     wakeAt |-> 0, postAt |-> 0]

\* Values of the history variable `last`.
\* `was` is the status the device had when updateReading was called.
Other == [op |-> "other", id |-> "", was |-> "", events |-> <<>>, settled |-> <<>>]
Called(op, id, was, evs, done) ==
    [op |-> op, id |-> id, was |-> was, events |-> evs, settled |-> done]

Summary(task) ==
    [kind |-> task.evt.kind, id |-> task.evt.id, tries |-> task.tries,
     emailRes |-> task.emailRes, posts |-> task.posts,
     discordRes |-> task.discordRes, outcome |-> task.outcome]

\* as SendEmailStart, without the check of the recipient list
SendEmailStart_NoRecipientCheck(c, e) ==
    LET alertsEnabled == Truthy(c.alerts_enabled)
        emailEnabled == IF c.email_enabled # "undefined"
                        THEN Truthy(c.email_enabled) ELSE TRUE
    IN IF ~alertsEnabled \/ ~emailEnabled THEN "skipped"
       ELSE IF e.provider = "resend"
            THEN (IF ~e.apiKey THEN "skipped" ELSE "io")
       ELSE IF e.provider = "smtp"
            THEN (IF ~e.smtpReady THEN "skipped" ELSE "io")
       ELSE "skipped"

\* sendEmail up to its first await: "skipped", or "io" when a transport is invoked.
SendEmailStart(c, e) ==
    LET alertsEnabled == Truthy(c.alerts_enabled)
        emailEnabled == IF c.email_enabled # "undefined"
                        THEN Truthy(c.email_enabled) ELSE TRUE
    IN IF ~alertsEnabled \/ ~emailEnabled THEN "skipped"
       ELSE IF ~c.recipients THEN "skipped"
       ELSE IF e.provider = "resend"
            THEN (IF ~e.apiKey THEN "skipped" ELSE "io")
       ELSE IF e.provider = "smtp"
            THEN (IF ~e.smtpReady THEN "skipped" ELSE "io")
       ELSE "skipped"

\* as EmailAttemptResult, with no try/catch around the transport call
EmailAttemptResult_Uncaught(outcome) ==
    IF outcome = "ok" THEN "ok" ELSE IF outcome = "throw" THEN "raise" ELSE "fail"

\* What one transport attempt makes of the transport's behaviour: every
\* exception is caught inside sendEmail and becomes { ok: false }.
EmailAttemptResult(outcome) ==
    IF outcome = "ok" THEN "ok" ELSE "fail"

\* notifyDiscord up to its first await: "none" when no notifier is registered,
\* "skipped" when it returns early, "io" when postToDiscord POSTs.
NotifyDiscordStart(c, n) ==
    IF ~n THEN "none"
    ELSE IF ~Truthy(c.alerts_enabled) THEN "skipped"
    ELSE IF ~Truthy(c.discord_enabled) THEN "skipped"
    ELSE IF ~c.webhook THEN "skipped"
    ELSE "io"

\* What emitEvent makes of an exception thrown by the notifier: caught, logged.
NotifierThrowOutcome == "resolved"

\* postToDiscord: how long the rate limit makes a post wait, from `now` and
\* lastPostMs as they are when postToDiscord is entered.
GapWaitMs(c) ==
    IF c.min_gap_sec > 0 /\ clock - lastPostMs < c.min_gap_sec * 1000
    THEN c.min_gap_sec * 1000 - (clock - lastPostMs)
    ELSE 0

\* postToDiscord: the first pass of the attempt loop, `await fetch(url, ...)`.
FirstPost(task) ==
    [task EXCEPT !.pc = "discord_io", !.attempt = 1, !.posts = 1, !.postAt = clock]

\* emitEvent from `if (typeof notifier === "function")` to its next suspension.
RunNotifier(task, c, n) ==
    LET st == NotifyDiscordStart(c, n) IN
    IF st = "none"
    THEN [task EXCEPT !.pc = "done", !.outcome = "resolved"]
    ELSE IF st = "skipped"
    THEN [task EXCEPT !.pc = "done", !.discordRes = "skipped", !.outcome = "resolved"]
    ELSE IF GapWaitMs(c) > 0
    THEN [task EXCEPT !.pc = "gap_sleep", !.wakeAt = clock + GapWaitMs(c)]
    ELSE FirstPost(task)

\* `await sendEmail(...)` has settled with res; an exception would reject emitEvent.
EmailReturned(task, res, c, n) ==
    IF res = "raise"
    THEN [task EXCEPT !.pc = "done", !.emailRes = res, !.outcome = "rejected"]
    ELSE RunNotifier([task EXCEPT !.emailRes = res], c, n)

\* as StartEmit, with a configuration fixed in the code instead of the one
\* the accessor returns
StartEmit_FixedConfig(evt, c, e, n) ==
    IF SendEmailStart(CfgAllOn, e) = "skipped"
    THEN EmailReturned(NewTask(evt), "skipped", CfgAllOn, n)
    ELSE [NewTask(evt) EXCEPT !.pc = "email_io", !.tries = 1]

\* emitEvent(evt) up to its first suspension.  sendEmail comes first; the
\* notifier is called only after `await sendEmail` has settled.
StartEmit(evt, c, e, n) ==
    IF SendEmailStart(c, e) = "skipped"
    THEN EmailReturned(NewTask(evt), "skipped", c, n)
    ELSE [NewTask(evt) EXCEPT !.pc = "email_io", !.tries = 1]

\* The mail transport has answered the attempt in flight.
AfterEmailAttempt(task, outcome, c, e, n) ==
    LET r == EmailAttemptResult(outcome) IN
    IF e.provider = "smtp" \/ r # "fail"
    THEN EmailReturned(task, r, c, n)
    ELSE [task EXCEPT !.pc = "email_sleep", !.emailRes = r]

\* withRetries: the backoff sleep is over; i++ and the loop test.
AfterEmailSleep(task, c, n) ==
    IF task.tries < EmailTries
    THEN [task EXCEPT !.pc = "email_io", !.tries = @ + 1]
    ELSE EmailReturned(task, task.emailRes, c, n)

\* as NextDiscordAttempt, with no bound on the attempt loop
NextDiscordAttempt_NoBudget(task) ==
    [task EXCEPT !.pc = "discord_io", !.attempt = @ + 1, !.posts = @ + 1,
                 !.postAt = clock]

\* postToDiscord: attempt++ and the loop test.
NextDiscordAttempt(task) ==
    IF task.attempt < DiscordAttempts
    THEN [task EXCEPT !.pc = "discord_io", !.attempt = @ + 1, !.posts = @ + 1,
                      !.postAt = clock]
    ELSE [task EXCEPT !.pc = "done", !.discordRes = "fail", !.outcome = "resolved"]

\* The webhook has answered the POST in flight.
AfterDiscordAttempt(task, outcome) ==
    IF outcome = "throw"
    THEN [task EXCEPT !.pc = "done", !.discordRes = "threw",
                      !.outcome = NotifierThrowOutcome]
    ELSE IF outcome = "204"
    THEN [task EXCEPT !.pc = "done", !.discordRes = "ok", !.outcome = "resolved"]
    ELSE IF outcome = "429"
    THEN [task EXCEPT !.pc = "discord_sleep"]
    ELSE IF outcome \in {"4xx", "5xx"}
    THEN IF task.attempt = 2
         THEN [task EXCEPT !.pc = "done", !.discordRes = "fail", !.outcome = "resolved"]
         ELSE [task EXCEPT !.pc = "discord_sleep"]
    ELSE NextDiscordAttempt(task)

\* The emitEvent calls of one handler, in order: those left suspended and
\* the summaries of those that settled without a suspension.
RECURSIVE StartAll(_, _, _, _, _)
StartAll(i, evs, c, e, n) ==
    IF i > Len(evs) THEN [tasks |-> <<>>, done |-> <<>>]
    ELSE LET task == StartEmit(evs[i], c, e, n)
             rest == StartAll(i + 1, evs, c, e, n)
         IN IF task.pc = "done"
            THEN [tasks |-> rest.tasks, done |-> <<Summary(task)>> \o rest.done]
            ELSE [tasks |-> <<task>> \o rest.tasks, done |-> rest.done]

\* inflight with entry i replaced by its successor, or removed when it settled.
Settle(tasks, i, task) ==
    IF task.pc = "done"
    THEN SubSeq(tasks, 1, i - 1) \o SubSeq(tasks, i + 1, Len(tasks))
    ELSE [tasks EXCEPT ![i] = task]

(* ------------------------------ actions -------------------------------- *)
\* The server after start-up: no device known, notifyDiscord registered,
\* and one of the configurations / environments.
InitWith(c, e) ==
    /\ clock = StartMs
    /\ devices = [id \in Ids |-> FreshRec]
    /\ order = <<>>
    /\ cfg = c
    /\ env = e
    /\ notifier = TRUE
    /\ inflight = <<>>
    /\ lastPostMs = 0
    /\ last = Other
    /\ emitted = [id \in Ids |-> <<>>]

\* db.data.config is {} until an administrator configures the alerts.
Init == InitWith(CfgOff, EnvSmtp)

InitD == \E c \in CfgSet, e \in EnvSet : InitWith(c, e)

\* Server time passes.
TickTo(maxTicks) ==
    /\ clock < StartMs + maxTicks * TickMs
    /\ clock' = clock + TickMs
    /\ last' = Other
    /\ UNCHANGED <<devices, order, cfg, env, notifier, inflight, lastPostMs, emitted>>

Tick == TickTo(MaxTicks)

TickD == TickTo(MaxTicksD)

TickC == TickTo(MaxTicksC)

\* The emitEvent calls of a handler: the suspended ones join inflight, of
\* which there are never more than max.
DispatchUpTo(max, op, id, was, evs) ==
    LET started == StartAll(1, evs, cfg, env, notifier) IN
    /\ Len(inflight) + Len(started.tasks) <= max
    /\ inflight' = inflight \o started.tasks
    /\ last' = Called(op, id, was, evs, started.done)

Dispatch(op, id, was, evs) == DispatchUpTo(MaxInFlight, op, id, was, evs)

\* POST /ingest -> alerts.updateReading({id, t, sr, ts, lower, upper})
UpdateReadingUpTo(max, id, t, sr, off, b) ==
    LET now == clock + off
        res == UpdateResult(devices[id], id, t, sr, now, b[1], b[2])
    IN /\ devices' = [devices EXCEPT ![id] = res.rec]
       /\ order' = IF id \in Range(order) THEN order ELSE Append(order, id)
       /\ DispatchUpTo(max, "updateReading", id, devices[id].status, res.events)
       /\ emitted' = [emitted EXCEPT ![id] = KindsOf(res.events)]
       /\ UNCHANGED <<clock, cfg, env, notifier, lastPostMs>>

UpdateReading(id, t, sr, off, b) == UpdateReadingUpTo(MaxInFlight, id, t, sr, off, b)

\* setInterval(() => alerts.checkHeartbeats(), 60_000)
CheckHeartbeats ==
    LET res == SweepFrom(1, devices, order, clock)
    IN /\ devices' = res.devs
       /\ Dispatch("checkHeartbeats", "", "", res.events)
       /\ UNCHANGED <<clock, order, cfg, env, notifier, lastPostMs, emitted>>

\* PUT /config: the administrator changes the configuration.
PutConfig(c) ==
    /\ cfg # c
    /\ cfg' = c
    /\ last' = Other
    /\ UNCHANGED <<clock, devices, order, env, notifier, inflight, lastPostMs, emitted>>

\* A suspended emitEvent moves on from its await.
Resume(i, task) ==
    /\ inflight' = Settle(inflight, i, task)
    /\ last' = IF task.pc = "done"
               THEN Called("settled", task.evt.id, "", <<>>, <<Summary(task)>>)
               ELSE Other
    /\ lastPostMs' = IF task.discordRes = "ok" THEN clock ELSE lastPostMs
    /\ UNCHANGED <<clock, devices, order, cfg, env, notifier, emitted>>

EmailResponds(i, outcome) ==
    /\ inflight[i].pc = "email_io"
    /\ Resume(i, AfterEmailAttempt(inflight[i], outcome, cfg, env, notifier))

EmailSleepEnds(i) ==
    /\ inflight[i].pc = "email_sleep"
    /\ Resume(i, AfterEmailSleep(inflight[i], cfg, notifier))

DiscordResponds(i, outcome) ==
    /\ inflight[i].pc = "discord_io"
    /\ Resume(i, AfterDiscordAttempt(inflight[i], outcome))

DiscordSleepEnds(i) ==
    /\ inflight[i].pc = "discord_sleep"
    /\ Resume(i, NextDiscordAttempt(inflight[i]))

\* postToDiscord: the rate-limit sleep is over (a timer never fires early).
GapSleepEnds(i) ==
    /\ inflight[i].pc = "gap_sleep"
    /\ clock >= inflight[i].wakeAt
    /\ Resume(i, FirstPost(inflight[i]))

\* A caller of getStates() assigns to the value it got.
GetStatesThenWrite(i, path, v) ==
    LET snap == GetStates(devices, order) IN
    /\ i \in 1..Len(snap)
    /\ devices' = WriteThrough(devices, snap, i, path, v)
    /\ last' = Called("getStates", snap[i].id, "", <<>>, <<>>)
    /\ UNCHANGED <<clock, order, cfg, env, notifier, inflight, lastPostMs, emitted>>

\* One device, every reading, no channel configured.
Next ==
    \/ Tick
    \/ \E id \in CoreIds, t \in Temps, sr \in Srs, off \in TsOffsets, b \in BoundsSet :
          UpdateReading(id, t, sr, off, b)
    \/ CheckHeartbeats

Spec == Init /\ [][Next]_vars

\* The interface of the alert manager: readings with and without bounds,
\* sweeps, and callers that write to what getStates returned.
NextG ==
    \/ Tick
    \/ \E id \in CoreIds, t \in TempsG, sr \in SrsD, off \in TsOffsetsD, b \in BoundsSetG :
          UpdateReading(id, t, sr, off, b)
    \/ CheckHeartbeats
    \/ \E i \in 1..Len(order), path \in SnapshotPaths, v \in SnapshotValues :
          GetStatesThenWrite(i, path, v)

SpecG == Init /\ [][NextG]_vars

(* ------------------------- claims: the state machine -------------------- *)
CooldownMs == COOLDOWN_SEC * 1000

\* Number of events of one kind for one device among the events of a call.
Count(evs, kind, id) == Len(EventsOf(evs, kind, id))

\* The gate of a bucket would let an event through at time now.
Expired(rec, key, now) == now - rec.lastAlertAt[key] >= CooldownMs

\* The step is an updateReading call (every other action sets last.op otherwise);
\* its arguments are those persisted in the record.
IsUpdate == last'.op = "updateReading"
UpId == last'.id
UpPre == devices[last'.id]
UpPost == devices'[last'.id]
UpT == devices'[last'.id].lastTemp[1]
UpSr == devices'[last'.id].lastSr
UpNow == devices'[last'.id].lastTs
UpEvents == last'.events

\* The step is a checkHeartbeats call.
IsSweep == last'.op = "checkHeartbeats"

\* C1: a reading with faultCode # 0 that arrives while the device's status is
\* not 'fault' emits exactly one 'fault' event, whatever the 'fault' bucket holds.
C1_FreshFaultEmitsOnce ==
    [][(IsUpdate /\ UpSr # 0 /\ UpPre.status # "fault")
          => Count(UpEvents, "fault", UpId) = 1]_vars

\* A fresh transition into fault was notified although the 'fault' bucket was
\* inside its window (the gate left the bucket at its older timestamp).
C1_Witness ==
    /\ last.op = "updateReading"
    /\ last.was # "fault"
    /\ Count(last.events, "fault", last.id) = 1
    /\ devices[last.id].lastAlertAt["fault"] > 0
    /\ devices[last.id].lastAlertAt["fault"] # devices[last.id].lastTs
    /\ devices[last.id].lastTs - devices[last.id].lastAlertAt["fault"] < CooldownMs

\* C2: two consecutive readings of a device, both classified 'alert', the second
\* within the cooldown window of the first and less than SPIKE_C away from it,
\* together emit at most one 'alert' event.
C2_SecondAlertSuppressed ==
    [][(/\ IsUpdate
        /\ UpPre.status = "alert"
        /\ UpPost.status = "alert"
        /\ UpNow - UpPre.lastTs >= 0
        /\ UpNow - UpPre.lastTs < CooldownMs
        /\ Abs(UpT - UpPre.lastTemp[1]) < SPIKE_C)
          => Len(SelectSeq(emitted[UpId], LAMBDA k : k = "alert"))
                + Count(UpEvents, "alert", UpId) <= 1]_vars

SweepCount(d) == Count(last'.events, "offline", d)

\* C4 as stated: the sweep that finds a device stale and not yet offline emits
\* exactly one 'offline' event for it.
C4_ExactlyOneOffline ==
    [][IsSweep =>
          \A d \in Range(order) :
              (IsStale(devices[d], clock) /\ devices[d].status # "offline")
                  => SweepCount(d) = 1]_vars

\* C4 as amended: the sweep that finds a device stale and not yet offline sets it
\* offline and emits one 'offline' event for it if the 'offline' bucket is outside
\* its cooldown window and none otherwise; a sweep emits nothing for a device
\* that is not stale or already offline; and only a reading of the device ends
\* its offline status.
C4_OfflineOncePerOutage ==
    [][/\ IsSweep =>
             \A d \in Range(order) :
                 IF IsStale(devices[d], clock) /\ devices[d].status # "offline"
                 THEN /\ devices'[d].status = "offline"
                      /\ SweepCount(d) =
                            (IF Expired(devices[d], "offline", clock) THEN 1 ELSE 0)
                 ELSE /\ SweepCount(d) = 0
                      /\ devices'[d] = devices[d]
       /\ \A d \in Ids :
             (devices[d].status = "offline" /\ devices'[d].status # "offline")
                 => (IsUpdate /\ UpId = d)]_vars

\* A sweep has just set a stale device offline and emitted its 'offline' event.
C4_Witness ==
    /\ last.op = "checkHeartbeats"
    /\ \E d \in Range(order) :
          /\ Count(last.events, "offline", d) = 1
          /\ Len(last.events) = 1
          /\ devices[d].status = "offline"
          /\ devices[d].lastAlertAt["offline"] = clock
          /\ clock - devices[d].lastTs >= OfflineAfterMs

\* C5 as stated: every reading that arrives for an offline device emits exactly
\* one 'online' event.
C5_ExactlyOneOnline ==
    [][(IsUpdate /\ UpPre.status = "offline")
          => Count(UpEvents, "online", UpId) = 1]_vars

\* C5 as amended: a reading that arrives for an offline device emits one 'online'
\* event if the 'online' bucket is outside its cooldown window and none otherwise,
\* and besides it exactly one 'fault' event if the reading is classified fault,
\* exactly one 'alert' event if it is classified alert, and nothing else.
C5_OnlineGatedPlusClassification ==
    [][(IsUpdate /\ UpPre.status = "offline")
          => /\ Count(UpEvents, "online", UpId) =
                   (IF Expired(UpPre, "online", UpNow) THEN 1 ELSE 0)
             /\ Count(UpEvents, "fault", UpId) =
                   (IF UpPost.status = "fault" THEN 1 ELSE 0)
             /\ Count(UpEvents, "alert", UpId) =
                   (IF UpPost.status = "alert" THEN 1 ELSE 0)
             /\ Len(UpEvents) = Count(UpEvents, "online", UpId)
                   + Count(UpEvents, "fault", UpId) + Count(UpEvents, "alert", UpId)]_vars

\* A reading of an offline device emitted 'online' followed by the event of its
\* own classification.
C5_Witness ==
    /\ last.op = "updateReading"
    /\ last.was = "offline"
    /\ Len(last.events) = 2
    /\ last.events[1].kind = "online"
    /\ last.events[2].kind \in {"alert", "fault"}

\* C6 as stated: every reading that moves a device from 'alert' to 'normal'
\* emits exactly one 'recover' event.
C6_ExactlyOneRecover ==
    [][(IsUpdate /\ UpPre.status = "alert" /\ UpPost.status = "normal")
          => Count(UpEvents, "recover", UpId) = 1]_vars

\* C6 as amended: a reading that moves a device from 'alert' to 'normal' emits
\* one 'recover' event if the 'recover' bucket is outside its cooldown window
\* and none otherwise, whatever the 'alert' bucket holds; it emits no other
\* event and leaves the 'alert' bucket as it was.
C6_RecoverGatedByOwnBucket ==
    [][(IsUpdate /\ UpPre.status = "alert" /\ UpPost.status = "normal")
          => /\ Count(UpEvents, "recover", UpId) =
                   (IF Expired(UpPre, "recover", UpNow) THEN 1 ELSE 0)
             /\ Len(UpEvents) = Count(UpEvents, "recover", UpId)
             /\ UpPost.lastAlertAt["alert"] = UpPre.lastAlertAt["alert"]]_vars

\* A 'recover' event was emitted while the 'alert' bucket was inside its window.
C6_Witness ==
    /\ last.op = "updateReading"
    /\ last.was = "alert"
    /\ devices[last.id].status = "normal"
    /\ Count(last.events, "recover", last.id) = 1
    /\ devices[last.id].lastAlertAt["recover"] = devices[last.id].lastTs
    /\ devices[last.id].lastAlertAt["alert"] > 0
    /\ devices[last.id].lastTs - devices[last.id].lastAlertAt["alert"] < CooldownMs

\* C7: while the status stays 'fault', a fault reading that arrives within the
\* cooldown window after a fault reading that emitted a 'fault' event emits no
\* 'fault' event.
C7_RepeatedFaultSuppressed ==
    [][(/\ IsUpdate
        /\ UpPre.status = "fault"
        /\ UpSr # 0
        /\ \E i \in 1..Len(emitted[UpId]) : emitted[UpId][i] = "fault"
        /\ UpNow - UpPre.lastTs >= 0
        /\ UpNow - UpPre.lastTs < CooldownMs)
          => Count(UpEvents, "fault", UpId) = 0]_vars

\* Two devices, few readings, the deliveries followed step by step.
NextD ==
    \/ TickD
    \/ \E id \in Ids, t \in TempsD, sr \in SrsD, off \in TsOffsetsD, b \in BoundsSet :
          UpdateReading(id, t, sr, off, b)
    \/ CheckHeartbeats
    \/ \E c \in CfgSet : PutConfig(c)
    \/ \E i \in 1..Len(inflight), o \in EmailOutcomes : EmailResponds(i, o)
    \/ \E i \in 1..Len(inflight) : EmailSleepEnds(i)
    \/ \E i \in 1..Len(inflight), o \in DiscordOutcomes : DiscordResponds(i, o)
    \/ \E i \in 1..Len(inflight) : DiscordSleepEnds(i)

SpecD == InitD /\ [][NextD]_vars

\* One device whose dispatches overlap, under the rate-limited webhook
\* configuration and under the configurations in which every channel skips.
InitC == \E c \in CfgSetC : InitWith(c, EnvSmtp)

NextC ==
    \/ TickC
    \/ \E id \in CoreIds, t \in TempsD, sr \in Srs, off \in TsOffsetsD, b \in BoundsSet :
          UpdateReadingUpTo(MaxInFlightC, id, t, sr, off, b)
    \/ \E i \in 1..Len(inflight), o \in DiscordOutcomes : DiscordResponds(i, o)
    \/ \E i \in 1..Len(inflight) : DiscordSleepEnds(i)
    \/ \E i \in 1..Len(inflight) : GapSleepEnds(i)

SpecC == InitC /\ [][NextC]_vars

(* --------------------------- claims: the dispatcher --------------------- *)
\* C8: when delivery fails on one channel, emitEvent still resolves (nothing is
\* raised) and the other channel is attempted: after a failed email the notifier
\* has been called, and it has POSTed unless the webhook channel is disabled;
\* a failed or throwing webhook delivery comes after the email attempt.
C8_ChannelFailureContained ==
    \A i \in 1..Len(last.settled) :
        LET s == last.settled[i] IN
        /\ s.outcome = "resolved"
        /\ s.emailRes = "fail" => s.discordRes # "none"
        /\ s.discordRes \notin {"none", "skipped"} => s.posts >= 1
        /\ s.discordRes \in {"fail", "threw"} => s.emailRes # "none"

\* An event whose email delivery failed was delivered to the webhook.
C8_Witness ==
    /\ last.op = "settled"
    /\ last.settled[1].emailRes = "fail"
    /\ last.settled[1].tries >= 1
    /\ last.settled[1].discordRes = "ok"
    /\ last.settled[1].posts >= 1

\* C9: while the email delivery of an event is still under way (attempt in
\* flight or backoff sleep), the webhook delivery of that event has been started
\* whenever the webhook channel is enabled.
C9_ChannelsStartTogether ==
    \A i \in 1..Len(inflight) :
        (inflight[i].pc \in {"email_io", "email_sleep"}
            /\ NotifyDiscordStart(cfg, notifier) = "io")
          => inflight[i].posts >= 1

\* C10: a notification that fails, throws or is still pending neither prevents
\* nor undoes the state change of its call: a sweep sets every stale device
\* offline whatever deliveries are pending, a reading is persisted with its
\* classification, and no delivery step changes the device map.
C10_StateChangeStands ==
    [][/\ IsSweep =>
             \A d \in Range(order) :
                 IsStale(devices[d], clock) => devices'[d].status = "offline"
       /\ IsUpdate =>
             /\ UpPost.lastTemp # <<>>
             /\ UpPost.lastOnlineAt = UpNow
             /\ \E b \in BoundsSet : UpPost.status = Classify(UpT, UpSr, b[1], b[2])
       /\ (~IsSweep /\ ~IsUpdate) => (devices' = devices /\ order' = order)]_vars

\* A sweep has set both devices offline while a notification was pending.
C10_Witness ==
    /\ last.op = "checkHeartbeats"
    /\ Len(last.events) = 2
    /\ \A d \in Ids : devices[d].status = "offline"
    /\ Len(inflight) >= 1
    /\ inflight[1].pc \in {"email_io", "email_sleep", "discord_io", "discord_sleep"}

(* ------------------------ claims: overlapping dispatches ---------------- *)
\* C11: with a minimum gap G > 0 configured, any two posts sent to the webhook
\* are at least G apart: of two dispatches that have both posted and are still
\* awaiting the answer, the posts are at least G apart.
C11_PostsAtLeastGapApart ==
    \A i, j \in 1..Len(inflight) :
        (/\ i < j
         /\ cfg.min_gap_sec > 0
         /\ inflight[i].posts >= 1
         /\ inflight[j].posts >= 1)
          => Abs(inflight[j].postAt - inflight[i].postAt) >= cfg.min_gap_sec * 1000

\* Two events do not come from one updateReading call: a call emits at most one
\* event of a kind, and all its events carry its temperature and timestamp.
FromDifferentReadings(e1, e2) ==
    e1.kind = e2.kind \/ e1.t # e2.t \/ e1.when # e2.when

\* C12: for one device, no event of a later reading is delivered to the webhook
\* while an event of an earlier reading is still undelivered: when a POST is
\* answered with 204, no older dispatch for the same device from another
\* reading is still in delivery.
C12_DeliveredInReadingOrder ==
    [][\A i \in 1..Len(inflight) :
          DiscordResponds(i, "204")
            => \A j \in 1..(i - 1) :
                  ~(/\ inflight[j].evt.id = inflight[i].evt.id
                    /\ FromDifferentReadings(inflight[j].evt, inflight[i].evt))]_vars

(* --------------------------- claims: one delivery ----------------------- *)
\* the HTTP responses of the webhook (a rejected fetch is no response)
DiscordResponses == DiscordOutcomes \ {"throw"}

C14_NoRetryAfterPermanentFailure ==
    [][\A i \in 1..Len(inflight) :
          (inflight[i].attempt = 1 /\ DiscordResponds(i, "4xx"))
            => /\ last'.op = "settled"
               /\ last'.settled[1].discordRes = "fail"
               /\ last'.settled[1].posts = 1]_vars

\* C15: when the first attempt on a channel fails transiently (network error,
\* 429 or 5xx on the webhook; an exception of the mail transport), a second
\* attempt follows before the failure is reported, and the failure is reported
\* as an outcome, not as an exception.
C15_TransientFailureRetried ==
    [][/\ \A i \in 1..Len(inflight), o \in {"throw", "429", "5xx"} :
             (inflight[i].attempt = 1 /\ DiscordResponds(i, o))
               => /\ last'.op # "settled"
                  /\ inflight'[i].pc = "discord_sleep"
       /\ \A i \in 1..Len(inflight) :
             (inflight[i].tries = 1 /\ EmailResponds(i, "throw"))
               => /\ Len(inflight') = Len(inflight)
                  /\ inflight'[i].pc = "email_sleep"
       /\ \A i \in 1..Len(last'.settled) :
             last'.settled[i].discordRes # "threw"]_vars

\* The email channel is disabled (global switch not on, or its flag off) or has
\* no recipient; the same for the webhook channel.
EmailOff(c) ==
    ~Truthy(c.alerts_enabled) \/ c.email_enabled = "false" \/ ~c.recipients
WebhookOff(c) ==
    ~Truthy(c.alerts_enabled) \/ c.discord_enabled = "false" \/ ~c.webhook

\* The dispatches a handler call started: those that settled within the call
\* and those it left suspended.
IsCall == IsUpdate \/ IsSweep
NewSettled == last'.settled
NewTasks == SubSeq(inflight', Len(inflight) + 1, Len(inflight'))

C20_ConfigReadAtDelivery ==
    [][/\ IsCall =>
             IF SendEmailStart(cfg, env) = "io"
             THEN /\ NewSettled = <<>>
                  /\ Len(NewTasks) = Len(last'.events)
                  /\ \A i \in 1..Len(NewTasks) :
                        NewTasks[i].pc = "email_io" /\ NewTasks[i].tries = 1
             ELSE /\ \A i \in 1..Len(NewSettled) : NewSettled[i].tries = 0
                  /\ \A i \in 1..Len(NewTasks) : NewTasks[i].tries = 0
                  /\ NotifyDiscordStart(cfg, notifier) = "skipped"
                        => (NewTasks = <<>> /\ Len(NewSettled) = Len(last'.events))
                  /\ NotifyDiscordStart(cfg, notifier) = "io"
                        => (NewSettled = <<>> /\ Len(NewTasks) = Len(last'.events))
       /\ \A i \in 1..Len(inflight) :
             ((\E o \in EmailOutcomes : EmailResponds(i, o)) \/ EmailSleepEnds(i))
               => \/ /\ Len(inflight') = Len(inflight)
                     /\ inflight'[i].pc \in {"email_io", "email_sleep"}
                  \/ /\ NotifyDiscordStart(cfg, notifier) = "skipped"
                     /\ Len(inflight') = Len(inflight) - 1
                     /\ last'.settled[1].discordRes = "skipped"
                     /\ last'.settled[1].posts = 0
                  \/ /\ NotifyDiscordStart(cfg, notifier) = "io"
                     /\ Len(inflight') = Len(inflight)
                     /\ inflight'[i].pc =
                           (IF GapWaitMs(cfg) > 0 THEN "gap_sleep" ELSE "discord_io")]_vars

\* After the configuration was switched off, an event was dispatched and
\* skipped on both channels while an event dispatched before the change was
\* still in delivery.
C20_Witness ==
    /\ last.op = "updateReading"
    /\ cfg = CfgOff
    /\ Len(last.settled) >= 1
    /\ last.settled[1].emailRes = "skipped"
    /\ last.settled[1].discordRes = "skipped"
    /\ Len(inflight) = 1
    /\ inflight[1].tries >= 1

(* --------------------------- claims: the interface ---------------------- *)
\* C17: what getStates returns is a snapshot: no assignment a caller makes on
\* it, the nested lastAlertAt object included, changes what the alert manager
\* holds for any device.
C17_SnapshotIsolated ==
    [][last'.op = "getStates" => devices' = devices]_vars

\* C18: a reading passed without bounds is classified against the default pair
\* LOWER..UPPER: without a fault, a temperature outside that range on a device
\* that is not in 'alert' makes the status 'alert' and emits one 'alert' event.
C18_DefaultBoundsApply ==
    [][\A id \in CoreIds, t \in TempsG, off \in TsOffsetsD :
          (/\ UpdateReading(id, t, 0, off, <<Undefined, Undefined>>)
           /\ devices[id].status # "alert"
           /\ (t < LOWER \/ t > UPPER))
            => /\ devices'[id].status = "alert"
               /\ Count(last'.events, "alert", id) = 1]_vars

\* C19: a reading without fault that arrives for a device in status 'normal'
\* emits no event if its temperature is inside [lower, upper], bounds included,
\* and exactly one 'alert' event if it is outside (as do -80, -80, -60 with
\* bounds -90..-70: [], [], [alert]).
C19_InRangeReadingIsSilent ==
    [][\A id \in CoreIds, t \in TempsG, off \in TsOffsetsD :
          (/\ UpdateReading(id, t, 0, off, <<Some(LOWER), Some(UPPER)>>)
           /\ devices[id].status = "normal")
            => IF LOWER <= t /\ t <= UPPER
               THEN last'.events = <<>> /\ devices'[id].status = "normal"
               ELSE KindsOf(last'.events) = <<"alert">>
                    /\ devices'[id].status = "alert"]_vars

\* A reading of exactly the lower bound arrived for a device in 'normal' that
\* had alerted before, and emitted nothing.
C19_Witness ==
    /\ last.op = "updateReading"
    /\ last.was = "normal"
    /\ last.events = <<>>
    /\ devices[last.id].lastTemp = <<LOWER>>
    /\ devices[last.id].lastSr = 0
    /\ devices[last.id].status = "normal"
    /\ devices[last.id].lastAlertAt["alert"] > 0

(* ------------------- claims: transitions and the ledger ----------------- *)
\* C21: a reading classified 'alert' that arrives while the device's status is
\* anything other than 'alert' (normal, fault or offline) emits exactly one
\* 'alert' event, whatever the 'alert' bucket holds.
C21_FreshAlertEmitsOnce ==
    [][(IsUpdate /\ UpPost.status = "alert" /\ UpPre.status # "alert")
          => Count(UpEvents, "alert", UpId) = 1]_vars

\* A device that was not in 'alert' got an alert-classified reading while its
\* 'alert' bucket was inside its window, and the alert was notified.
C21_Witness ==
    /\ last.op = "updateReading"
    /\ last.was \in {"normal", "fault", "offline"}
    /\ devices[last.id].status = "alert"
    /\ Count(last.events, "alert", last.id) = 1
    /\ devices[last.id].lastAlertAt["alert"] > 0
    /\ devices[last.id].lastAlertAt["alert"] # devices[last.id].lastTs
    /\ Abs(devices[last.id].lastTs - devices[last.id].lastAlertAt["alert"]) < CooldownMs


\* C22: for every device and bucket, a call of updateReading or checkHeartbeats
\* updates the bucket's last-fired timestamp if and only if the call emitted an
\* event of the bucket's kind for the device.
C22_BucketUpdatedIffEmitted ==
    [][(IsUpdate \/ IsSweep)
          => \A d \in Ids : \A b \in Buckets :
                (devices'[d].lastAlertAt[b] # devices[d].lastAlertAt[b])
                    <=> (Count(last'.events, b, d) >= 1)]_vars


\* C23: shouldCooldown(state, bucket, now) returns true and leaves the whole
\* ledger unchanged when now minus the bucket's last-fired timestamp is less
\* than the cooldown; otherwise it returns false and sets that bucket to now,
\* changing no other bucket. Checked on every record the program reaches, for
\* every bucket and every time a call can pass at that moment.
C23_GateTestAndSet ==
    \A d \in Ids : \A key \in Buckets : \A off \in TsOffsets :
        LET now == clock + off
            st == devices[d]
            r == ShouldCooldown(st, key, now)
        IN IF now - st.lastAlertAt[key] < CooldownMs
           THEN r.ret /\ r.state = st
           ELSE /\ ~r.ret
                /\ r.state.lastAlertAt[key] = now
                /\ \A k \in Buckets \ {key} :
                       r.state.lastAlertAt[k] = st.lastAlertAt[k]
                /\ [r.state EXCEPT !.lastAlertAt = st.lastAlertAt] = st

\* Both outcomes have happened to one device: its 'alert' bucket was set by an
\* earlier call, and the last call, a further alert inside the window and no
\* spike, was suppressed and left the ledger as it was.
C23_Witness ==
    /\ last.op = "updateReading"
    /\ last.was = "alert"
    /\ devices[last.id].status = "alert"
    /\ last.events = <<>>
    /\ devices[last.id].lastAlertAt["alert"] > 0
    /\ devices[last.id].lastAlertAt["alert"] # devices[last.id].lastTs


\* C24: the status computed for a reading is 'fault' whenever faultCode # 0,
\* whatever the temperature; otherwise 'alert' exactly when the temperature is
\* below lower or above upper; otherwise 'normal'. A reading with faultCode # 0
\* emits no 'alert' and no 'recover' event. (Every reading of this specification
\* is passed the bounds LOWER..UPPER.)
C24_FaultPreemptsAlert ==
    [][IsUpdate
          => /\ UpPost.status =
                   IF UpSr # 0 THEN "fault"
                   ELSE IF UpT < LOWER \/ UpT > UPPER THEN "alert"
                   ELSE "normal"
             /\ UpSr # 0 => /\ Count(UpEvents, "alert", UpId) = 0
                            /\ Count(UpEvents, "recover", UpId) = 0]_vars

\* A device in 'alert' sent a reading with a fault code and a temperature that is
\* still out of range: the status is 'fault' and the call emitted the fault only.
C24_Witness ==
    /\ last.op = "updateReading"
    /\ last.was = "alert"
    /\ devices[last.id].lastSr # 0
    /\ devices[last.id].lastTemp[1] > UPPER
    /\ devices[last.id].status = "fault"
    /\ KindsOf(last.events) = <<"fault">>


\* C25: after every updateReading(id, t, faultCode, ts, lower, upper) call the
\* record holds lastTemp = t, lastSr = faultCode, lastTs = ts and status = the
\* classification of this reading, whichever events were emitted or suppressed;
\* and the events were decided from the status and lastTemp as they were before
\* the call: 'online' only out of 'offline', 'recover' only out of 'alert', a
\* fresh 'fault' or 'alert' always, and a repeated alert inside the window
\* exactly when it is a spike against the temperature received before.
C25_CommitAfterDecision ==
    [][\A id \in CoreIds : \A t \in Temps : \A sr \in Srs :
       \A off \in TsOffsets : \A b \in BoundsSet :
          UpdateReading(id, t, sr, off, b)
            => LET pre == devices[id]
                   post == devices'[id]
                   now == clock + off
                   evs == last'.events
                   class == IF sr # 0 THEN "fault"
                            ELSE IF t < b[1][1] \/ t > b[2][1] THEN "alert"
                            ELSE "normal"
                   spike == IsFinite(pre.lastTemp)
                            /\ Abs(t - pre.lastTemp[1]) >= SPIKE_C
               IN /\ post.lastTemp = <<t>>
                  /\ post.lastSr = sr
                  /\ post.lastTs = now
                  /\ post.status = class
                  /\ Count(evs, "online", id) >= 1 => pre.status = "offline"
                  /\ Count(evs, "recover", id) >= 1 => pre.status = "alert"
                  /\ (class = "fault" /\ pre.status # "fault")
                        => Count(evs, "fault", id) = 1
                  /\ (class = "alert" /\ pre.status # "alert")
                        => Count(evs, "alert", id) = 1
                  /\ (class = "alert" /\ pre.status = "alert"
                                     /\ ~Expired(pre, "alert", now))
                        => Count(evs, "alert", id) = IF spike THEN 1 ELSE 0]_vars

\* A reading stamped behind the server's clock took a device out of 'alert':
\* the record holds the reading's own timestamp and the new status, and the
\* 'recover' event of the call came from the status before it.
C25_Witness ==
    /\ last.op = "updateReading"
    /\ last.was = "alert"
    /\ devices[last.id].status = "normal"
    /\ devices[last.id].lastTs = clock - TickMs
    /\ devices[last.id].lastTemp = <<UPPER>>
    /\ Count(last.events, "recover", last.id) = 1


\* C26: a device's status becomes 'offline' only through a checkHeartbeats
\* sweep and stops being 'offline' only through an updateReading call for that
\* device; every updateReading leaves the status in {normal, alert, fault}; a
\* device created by its first reading starts from status 'normal'.
C26_OfflineAxis ==
    [][/\ \A d \in Ids :
            /\ (devices[d].status # "offline" /\ devices'[d].status = "offline")
                  => IsSweep
            /\ (devices[d].status = "offline" /\ devices'[d].status # "offline")
                  => (IsUpdate /\ UpId = d)
       /\ IsUpdate
            => /\ UpPost.status \in {"normal", "alert", "fault"}
               /\ UpId \notin Range(order) => last'.was = "normal"]_vars

\* A device the sweep had marked offline sent a reading, which cleared it.
C26_Witness ==
    /\ last.op = "updateReading"
    /\ last.was = "offline"
    /\ devices[last.id].status \in {"normal", "alert", "fault"}
    /\ devices[last.id].lastAlertAt["offline"] > 0


(* ------------------------ claims: bounds of an event -------------------- *)
\* cfg.lowerC / cfg.upperC as PUT /config leaves them: absent, or a number.
CfgBounds == {Undefined, Some(-800), Some(-600)}

\* The bounds notifyDiscord renders for an event when the configuration holds
\* cfgLower and cfgUpper at that moment:
\* `evt.lower ?? (typeof cfg.lowerC === 'number' ? cfg.lowerC : LOWER)`.
NotifierBounds(evt, cfgLower, cfgUpper) ==
    <<IF IsFinite(evt.lower) THEN evt.lower
      ELSE IF IsFinite(cfgLower) THEN cfgLower ELSE Some(LOWER),
      IF IsFinite(evt.upper) THEN evt.upper
      ELSE IF IsFinite(cfgUpper) THEN cfgUpper ELSE Some(UPPER)>>

\* C27: every event handed to the dispatcher, 'offline' included, carries the
\* lower and upper bounds in effect for the device when it was generated, and
\* the bounds a channel renders for it do not depend on the configuration read
\* at delivery time.
C27_EventsCarryTheirBounds ==
    \A i \in 1..Len(last.events) :
        LET e == last.events[i] IN
        /\ IsFinite(e.lower)
        /\ IsFinite(e.upper)
        /\ \A cl \in CfgBounds : \A cu \in CfgBounds :
               NotifierBounds(e, cl, cu) = <<e.lower, e.upper>>


(* ----------------------------- claims: atomicity ------------------------ *)
\* updateReading and checkHeartbeats contain no await: each call runs from its
\* read of the record to devices.set before any other call or continuation
\* gets a turn, which is why each is one action of Next.

\* C28: each updateReading and checkHeartbeats call reads, tests and sets the
\* gate and commits as one step with respect to every other such call: a
\* bucket is stamped only by such a call and then at least one cooldown after
\* its previous stamp (no two calls pass one gate within a window); every record
\* any step leaves behind is fully committed (lastOnlineAt = lastTs, and the
\* status is 'offline' or the classification of the stored reading); and a
\* sweep marks offline only a record that is stale as stored.
C28_CallsAreAtomic ==
    [][\A d \in Ids :
          /\ \A b \in Buckets :
                devices'[d].lastAlertAt[b] # devices[d].lastAlertAt[b]
                  => /\ IsUpdate \/ IsSweep
                     /\ devices'[d].lastAlertAt[b] - devices[d].lastAlertAt[b]
                            >= CooldownMs
          /\ d \in Range(order')
                => /\ devices'[d].lastOnlineAt = devices'[d].lastTs
                   /\ devices'[d].status \in
                         {"offline",
                          IF devices'[d].lastSr # 0 THEN "fault"
                          ELSE IF devices'[d].lastTemp[1] < LOWER
                                  \/ devices'[d].lastTemp[1] > UPPER THEN "alert"
                          ELSE "normal"}
          /\ (devices[d].status # "offline" /\ devices'[d].status = "offline")
                => /\ clock - devices[d].lastTs >= OfflineAfterMs
                   /\ devices'[d].lastTs = devices[d].lastTs
                   /\ devices'[d].lastTemp = devices[d].lastTemp]_vars

\* A sweep ran after readings of the same device: it found the committed record
\* of an out-of-range reading stale, passed the 'offline' gate and marked it.
C28_Witness ==
    /\ last.op = "checkHeartbeats"
    /\ \E d \in Range(order) :
          /\ devices[d].status = "offline"
          /\ devices[d].lastAlertAt["offline"] = clock
          /\ devices[d].lastAlertAt["alert"] > 0
          /\ devices[d].lastTemp[1] > UPPER
          /\ devices[d].lastSr = 0


(* ----------------------------- claims: termination ---------------------- *)
\* Both channels enabled and configured, email through Resend.
InitL == InitWith(CfgAllOn, EnvResend)

NextL ==
    \/ TickD
    \/ \E id \in CoreIds, t \in TempsD, sr \in SrsD, off \in TsOffsetsD, b \in BoundsSet :
          UpdateReading(id, t, sr, off, b)
    \/ CheckHeartbeats
    \/ \E i \in 1..Len(inflight), o \in EmailOutcomes : EmailResponds(i, o)
    \/ \E i \in 1..Len(inflight) : EmailSleepEnds(i)
    \/ \E i \in 1..Len(inflight), o \in DiscordOutcomes : DiscordResponds(i, o)
    \/ \E i \in 1..Len(inflight) : DiscordSleepEnds(i)

\* What the code guarantees to happen: a setTimeout sleep ends, and a Resend
\* request is ended after 20 s at the latest by its AbortController. Nothing
\* ends the webhook's fetch: it settles only if the transport answers.
FairL ==
    /\ WF_vars(\E i \in 1..Len(inflight) : EmailSleepEnds(i))
    /\ WF_vars(\E i \in 1..Len(inflight) : DiscordSleepEnds(i))
    /\ WF_vars(\E i \in 1..Len(inflight), o \in EmailOutcomes :
                  env.provider = "resend" /\ EmailResponds(i, o))

SpecL == InitL /\ [][NextL]_vars /\ FairL

\* C29: every delivery attempt is ended by a timeout when the transport does
\* not respond, so every dispatched event eventually gets an outcome on every
\* channel, also when a transport never answers.
C29_EveryDispatchSettles == (inflight # <<>>) ~> (inflight = <<>>)


(* ------------------------- claims: device timestamps -------------------- *)
\* Server time at which the last updateReading call for d arrived. POST /ingest
\* passes the device's own ts_ms as ts, and every reading of SpecG is stamped
\* by the one offset of TsOffsetsD, so the arrival is the stored lastTs less
\* that offset.
HeardAt(d) == devices[d].lastTs - (CHOOSE off \in TsOffsetsD : TRUE)

\* C30: checkHeartbeats marks a device offline only if no updateReading call for
\* it arrived during the last OfflineAfterMs of server time before the sweep,
\* whatever timestamp the device supplied.
C30_OfflineOnlyAfterSilence ==
    [][\A d \in Range(order) :
          (IsSweep /\ devices[d].status # "offline" /\ devices'[d].status = "offline")
             => clock - HeardAt(d) >= OfflineAfterMs]_vars


(* ------------------------ claims: webhook delivery ---------------------- *)
\* C31: postToDiscord delivers a message at most once: once the webhook has
\* answered an attempt with a success status (204 or any other 2xx), the
\* delivery ends there with ok = true and no further POST of the message.
C31_DeliveredAtMostOnce ==
    [][\A i \in 1..Len(inflight) : \A o \in {"204", "2xx"} :
          DiscordResponds(i, o)
            => /\ Len(inflight') < Len(inflight)
               /\ last'.settled # <<>>
               /\ last'.settled[1].discordRes = "ok"
               /\ last'.settled[1].posts = inflight[i].posts]_vars


(* --------------------- claims: events of one call ----------------------- *)
\* C32: a 'recover' event is emitted only by an updateReading call classified
\* 'normal' that arrives while the device's status is exactly 'alert'; a normal
\* reading that finds the device in 'fault' or 'offline' (an alert episode that
\* passed through one of them) emits no 'recover'.
C32_RecoverOnlyOutOfAlert ==
    [][IsUpdate
          => /\ Count(UpEvents, "recover", UpId) >= 1
                  => (UpPre.status = "alert" /\ UpPost.status = "normal")
             /\ UpPre.status \in {"fault", "offline"}
                  => Count(UpEvents, "recover", UpId) = 0]_vars

\* A device that had been alerted about went offline or into fault without ever
\* recovering, and its next reading is in range: the call emits no 'recover'.
C32_Witness ==
    /\ last.op = "updateReading"
    /\ last.was \in {"fault", "offline"}
    /\ devices[last.id].status = "normal"
    /\ devices[last.id].lastAlertAt["alert"] > 0
    /\ devices[last.id].lastAlertAt["recover"] = 0
    /\ Count(last.events, "recover", last.id) = 0


\* C33: one updateReading call emits at most two events: at most one 'online',
\* first, and at most one of 'fault', 'alert', 'recover', all for the device of
\* the call; never 'offline' or 'heartbeat'. A checkHeartbeats sweep emits only
\* 'offline' events, at most one per device.
C33_EventsOfOneCall ==
    [][/\ IsUpdate
            => /\ KindsOf(UpEvents) \in
                     {<<>>, <<"online">>}
                       \cup {<<k>> : k \in {"fault", "alert", "recover"}}
                       \cup {<<"online", k>> : k \in {"fault", "alert", "recover"}}
               /\ \A i \in 1..Len(UpEvents) : UpEvents[i].id = UpId
       /\ IsSweep
            => /\ \A i \in 1..Len(last'.events) : last'.events[i].kind = "offline"
               /\ \A d \in Ids : SweepCount(d) <= 1]_vars

\* A reading that brought a device back from 'offline' with a fault code
\* emitted two events, 'online' first.
C33_Witness ==
    /\ last.op = "updateReading"
    /\ last.was = "offline"
    /\ KindsOf(last.events) = <<"online", "fault">>


(* ------------------------ claims: sustained alerts ---------------------- *)
\* C34: while a device's status stays 'alert', an alert-classified
\* reading whose timestamp is at least one cooldown after the device's most
\* recently emitted 'alert' event emits an 'alert' event. (Here the most recently
\* emitted 'alert' is that of the device's previous call, stamped lastTs.)
C34_NoSilenceBeyondCooldown ==
    [][(/\ IsUpdate
        /\ UpPre.status = "alert"
        /\ UpPost.status = "alert"
        /\ \E i \in 1..Len(emitted[UpId]) : emitted[UpId][i] = "alert"
        /\ UpNow - UpPre.lastTs >= CooldownMs)
          => Count(UpEvents, "alert", UpId) = 1]_vars


(* ------------------------- the configuration API ------------------------ *)
\* In SpecK the variable cfg holds db.data as the handlers see it: the flags of
\* db.data.config as before, `stored` (whether db.data.config is an object yet:
\* a fresh database has none), its lowerC / upperC, and under `devs` the
\* per-device overrides db.data.devices[id].

\* A number in a request body: a JSON value is a finite number or something else.
Num(n) == [num |-> TRUE, n |-> n]
NotNum == [num |-> FALSE, n |-> 0]

NoOverride == [stored |-> FALSE, lowerC |-> Undefined, upperC |-> Undefined]

DbFresh ==
    [alerts_enabled |-> "undefined", email_enabled |-> "undefined",
     discord_enabled |-> "undefined", recipients |-> FALSE, webhook |-> FALSE,
     min_gap_sec |-> 0, stored |-> FALSE, lowerC |-> Undefined,
     upperC |-> Undefined, devs |-> [id \in Ids |-> NoOverride]]

\* Bodies of PUT /config: each field absent or given; a bound in range, out of
\* range or not a number; a webhook URL that does not start with the Discord prefix.
ConfigBodies ==
    [lowerC : {<<>>, <<Num(-800)>>, <<Num(-600)>>, <<Num(-2000)>>},
     upperC : {<<>>, <<Num(-700)>>, <<NotNum>>},
     alerts_enabled : {<<>>, <<"true">>},
     discord_webhook_url : {<<>>, <<"invalid">>}]

\* Bodies of PUT /devices/:id.
DeviceBodies ==
    [lowerC : {<<>>, <<Num(-600)>>},
     upperC : {<<>>, <<Num(-800)>>, <<NotNum>>}]

\* PUT /config on the object c (db.data.config, or a new object when there is
\* none): the fields are validated and assigned one after the other, and the
\* first failing validation returns 400 with the assignments made so far.
PutConfigOn(c, body) ==
    LET lowerBad == /\ body.lowerC # <<>>
                    /\ \/ ~body.lowerC[1].num
                       \/ body.lowerC[1].n < -1000
                       \/ body.lowerC[1].n >= 500
        c1 == IF body.lowerC # <<>> /\ ~lowerBad
              THEN [c EXCEPT !.lowerC = Some(body.lowerC[1].n)] ELSE c
        upperBad == /\ body.upperC # <<>>
                    /\ \/ ~body.upperC[1].num
                       \/ body.upperC[1].n <= -1000
                       \/ body.upperC[1].n > 500
        c2 == IF body.upperC # <<>> /\ ~upperBad
              THEN [c1 EXCEPT !.upperC = Some(body.upperC[1].n)] ELSE c1
        crossed == /\ IsFinite(c2.lowerC) /\ IsFinite(c2.upperC)
                   /\ c2.lowerC[1] >= c2.upperC[1]
        c3 == IF body.alerts_enabled # <<>>
              THEN [c2 EXCEPT !.alerts_enabled = body.alerts_enabled[1]] ELSE c2
        urlBad == body.discord_webhook_url # <<>>
    IN IF lowerBad THEN [code |-> 400, obj |-> c]
       ELSE IF upperBad THEN [code |-> 400, obj |-> c1]
       ELSE IF crossed THEN [code |-> 400, obj |-> c2]
       ELSE IF urlBad THEN [code |-> 400, obj |-> c3]
       ELSE [code |-> 200, obj |-> c3]

\* `const cfg = db.data.config || {}` ... `db.data.config = cfg`: the handler
\* works on the stored object itself when there is one, so its assignments
\* are in db.data whether or not the request is answered 200.
PutConfigHandler(db, body) ==
    LET r == PutConfigOn(db, body) IN
    [code |-> r.code,
     db |-> IF r.code = 200 THEN [r.obj EXCEPT !.stored = TRUE]
            ELSE IF db.stored THEN r.obj ELSE db]

\* PUT /devices/:id on the device's override object (or a new one).
PutDeviceOn(o, body) ==
    LET lowerBad == body.lowerC # <<>> /\ ~body.lowerC[1].num
        o1 == IF body.lowerC # <<>> /\ ~lowerBad
              THEN [o EXCEPT !.lowerC = Some(body.lowerC[1].n)] ELSE o
        upperBad == body.upperC # <<>> /\ ~body.upperC[1].num
        o2 == IF body.upperC # <<>> /\ ~upperBad
              THEN [o1 EXCEPT !.upperC = Some(body.upperC[1].n)] ELSE o1
    IN IF lowerBad THEN [code |-> 400, obj |-> o]
       ELSE IF upperBad THEN [code |-> 400, obj |-> o1]
       ELSE [code |-> 200, obj |-> o2]

PutDeviceHandler(db, id, body) ==
    LET r == PutDeviceOn(db.devs[id], body) IN
    [code |-> r.code,
     db |-> IF r.code = 200 THEN [db EXCEPT !.devs[id] = [r.obj EXCEPT !.stored = TRUE]]
            ELSE IF db.devs[id].stored THEN [db EXCEPT !.devs[id] = r.obj]
            ELSE db]

\* POST /ingest: the device's override, else the configuration's bound, else
\* the default.
ResolveBounds(db, id) ==
    <<IF IsFinite(db.devs[id].lowerC) THEN db.devs[id].lowerC
      ELSE IF IsFinite(db.lowerC) THEN db.lowerC ELSE Some(LOWER),
      IF IsFinite(db.devs[id].upperC) THEN db.devs[id].upperC
      ELSE IF IsFinite(db.upperC) THEN db.upperC ELSE Some(UPPER)>>

SetDb(db) ==
    /\ cfg' = db
    /\ last' = Other
    /\ UNCHANGED <<clock, devices, order, env, notifier, inflight, lastPostMs, emitted>>

PutConfigRequest(body) == SetDb(PutConfigHandler(cfg, body).db)

PutDeviceRequest(id, body) == SetDb(PutDeviceHandler(cfg, id, body).db)

\* POST /config/reset: db.data.config = {}
ConfigReset ==
    SetDb([DbFresh EXCEPT !.stored = TRUE, !.devs = cfg.devs])

\* POST /devices/:id/reset: delete db.data.devices[id]
DeviceReset(id) == SetDb([cfg EXCEPT !.devs[id] = NoOverride])

Ingest(id, t, sr, off) == UpdateReading(id, t, sr, off, ResolveBounds(cfg, id))

InitK == InitWith(DbFresh, EnvSmtp)

NextK ==
    \/ \E body \in ConfigBodies : PutConfigRequest(body)
    \/ \E id \in CoreIds, body \in DeviceBodies : PutDeviceRequest(id, body)
    \/ ConfigReset
    \/ \E id \in CoreIds : DeviceReset(id)
    \/ \E id \in CoreIds, t \in TempsD, sr \in SrsD, off \in TsOffsetsD :
          Ingest(id, t, sr, off)

SpecK == InitK /\ [][NextK]_vars

\* C35: whatever configuration requests the server has accepted or rejected
\* (PUT /config, PUT /devices/:id, the resets), the bounds pair the ingest
\* path resolves for a device and passes to updateReading has lower < upper.
C35_ResolvedBoundsOrdered ==
    \A id \in CoreIds :
        LET b == ResolveBounds(cfg, id) IN b[1][1] < b[2][1]


\* C36: a PUT /config request answered with 400 leaves the configuration that
\* getConfig returns exactly as it was before the request.
C36_RejectedRequestHasNoEffect ==
    [][\A body \in ConfigBodies :
          (PutConfigRequest(body) /\ PutConfigHandler(cfg, body).code = 400)
             => cfg' = cfg]_vars


(* --------------------------- claims: frame effects ---------------------- *)
\* C37: checkHeartbeats changes nothing in a device's record except its status
\* and its 'offline' bucket (lastTemp, lastSr, lastTs, lastOnlineAt and the
\* other four buckets are unchanged), and it leaves the record of a device that
\* is not stale, or is already offline, entirely unchanged.
C37_SweepFrame ==
    [][IsSweep
          => \A d \in Ids :
                /\ [devices'[d] EXCEPT
                        !.status = devices[d].status,
                        !.lastAlertAt["offline"] = devices[d].lastAlertAt["offline"]]
                      = devices[d]
                /\ (\/ clock - devices[d].lastTs < OfflineAfterMs
                    \/ devices[d].status = "offline")
                      => devices'[d] = devices[d]]_vars

\* A sweep marked offline a device whose last reading carried a fault code: the
\* record still holds that reading and its 'fault' bucket.
C37_Witness ==
    /\ last.op = "checkHeartbeats"
    /\ \E d \in Range(order) :
          /\ devices[d].status = "offline"
          /\ devices[d].lastAlertAt["offline"] = clock
          /\ devices[d].lastSr # 0
          /\ IsFinite(devices[d].lastTemp)
          /\ devices[d].lastAlertAt["fault"] > 0


\* C38: an updateReading call for one device changes no field of the record of
\* any other device and emits no event that names another device.
C38_OtherDevicesUntouched ==
    [][IsUpdate
          => /\ \A d \in Ids \ {UpId} : devices'[d] = devices[d]
             /\ \A i \in 1..Len(UpEvents) : UpEvents[i].id = UpId]_vars

\* A reading of device B raised an alert while device A, heard earlier, holds
\* its own record.
C38_Witness ==
    /\ last.op = "updateReading"
    /\ last.id = "B"
    /\ Count(last.events, "alert", "B") = 1
    /\ "A" \in Range(order)
    /\ devices["A"].lastTs # devices["B"].lastTs
    /\ devices["A"].lastAlertAt["alert"] # devices["B"].lastAlertAt["alert"]


\* C39: for every device and bucket, the bucket's timestamp never decreases
\* over any sequence of updateReading and checkHeartbeats calls, readings
\* stamped out of order included: a call that changes it sets it to a value at
\* least one cooldown greater than the previous one.
C39_BucketsOnlyAdvance ==
    [][\A d \in Ids : \A b \in Buckets :
          /\ devices'[d].lastAlertAt[b] >= devices[d].lastAlertAt[b]
          /\ devices'[d].lastAlertAt[b] # devices[d].lastAlertAt[b]
                => devices'[d].lastAlertAt[b]
                      >= devices[d].lastAlertAt[b] + CooldownMs]_vars

\* A reading stamped earlier than the 'alert' bucket of its device arrived (out
\* of order) while the device was in 'alert', and the bucket kept its later
\* timestamp.
C39_Witness ==
    /\ last.op = "updateReading"
    /\ last.was = "alert"
    /\ devices[last.id].status = "alert"
    /\ devices[last.id].lastTs < devices[last.id].lastAlertAt["alert"]

====
